---- MODULE Spec2Model ----
(***************************************************************************)
(* A model of the Discord movie bot of src/main.py: the movie registry     *)
(* (MovieBot.movie_list and movies.json), name resolution, autocomplete,   *)
(* the per-guild session table (MovieBot.current_streams) and the slash    *)
(* command and voice-state handlers, which are asyncio coroutines and so   *)
(* interleave at every await.                                              *)
(*                                                                         *)
(* Strings are sequences of one-character strings.  URLs are sequences of  *)
(* tokens, each token standing for a fixed piece of text:                  *)
(*   "HD"  https://drive.google.com      "HX"  https://docs.google.com     *)
(*   "DG"  drive.google.com (bare host)  "/"   a slash                     *)
(*   "file" "d" "x"  path segments made of identifier characters           *)
(*   "open?id="  "uc?export=download&id="  "?"  non-identifier text        *)
(***************************************************************************)
EXTENDS Integers, Sequences, FiniteSets, Bags, TLC

\* ------------------------------------------------------------ bounds
MaxNameLen == 2       \* longest query string of the resolver specification
MaxMovies == 2        \* most keys of a drawn registry / of the bot's registry
MaxTasks == 2         \* handler coroutines alive at the same time
MaxHandles == 2       \* voice client objects alive at the same time
MaxTailLen == 3       \* most tokens after the beginning of a drawn URL

\* ------------------------------------------------- program constants
SuggestLimit == 25    \* movies[:25], filtered[:25]

None == "None"          \* None, of a guild, a channel, a member or a command
NoneStr == <<"None">>   \* None, where the code holds a string
NoHandle == 0           \* None, or an absent key, where the code holds a voice client

\* ------------------------------------------------------------ strings
NameChars == {"a", "A", "b", " ", "-", "_"}

RECURSIVE SeqsUpTo(_, _)
SeqsUpTo(S, n) ==
    IF n = 0 THEN {<<>>}
    ELSE LET shorter == SeqsUpTo(S, n - 1)
         IN  shorter \cup {Append(s, c) : s \in {t \in shorter : Len(t) = n - 1}, c \in S}

\* str.lower() on one character
lower_char(c) ==
    CASE c = "A" -> "a"
      [] c = "B" -> "b"
      [] OTHER -> c

\* str.lower()
lower(s) == [i \in 1..Len(s) |-> lower_char(s[i])]

\* str.replace(ch, "")
replace_empty(s, ch) == SelectSeq(s, LAMBDA c : c # ch)

\* the expression  s.lower().replace(" ", "").replace("-", "").replace("_", "")
\* (as fold, the replace of "_" forgotten)
fold_noUnderscore(s) == replace_empty(replace_empty(lower(s), " "), "-")
fold(s) == replace_empty(replace_empty(replace_empty(lower(s), " "), "-"), "_")

\* str.startswith
startswith(s, p) == Len(p) <= Len(s) /\ SubSeq(s, 1, Len(p)) = p

\* the operator  p in s  on strings
contains(s, p) == \E i \in 0..(Len(s) - Len(p)) : SubSeq(s, i + 1, i + Len(p)) = p

\* str.strip(): leading and trailing whitespace removed
RECURSIVE lstrip(_)
lstrip(s) == IF s # <<>> /\ Head(s) = " " THEN lstrip(Tail(s)) ELSE s
RECURSIVE rstrip(_)
rstrip(s) == IF s # <<>> /\ s[Len(s)] = " " THEN rstrip(SubSeq(s, 1, Len(s) - 1)) ELSE s
strip(s) == rstrip(lstrip(s))

\* ------------------------------------------------------------ dicts
\* A dict is a sequence of [key, url] records in insertion order, keys distinct.
dict_keys(d) == [i \in 1..Len(d) |-> d[i].key]
dict_has(d, k) == \E i \in 1..Len(d) : d[i].key = k
dict_index(d, k) == CHOOSE i \in 1..Len(d) : d[i].key = k
dict_get(d, k) == d[dict_index(d, k)].url
\* d[k] = v : an existing key keeps its place, a new key goes last
dict_set(d, k, v) ==
    IF dict_has(d, k)
    THEN [d EXCEPT ![dict_index(d, k)] = [key |-> k, url |-> v]]
    ELSE Append(d, [key |-> k, url |-> v])
\* del d[k]
dict_del(d, k) == SelectSeq(d, LAMBDA e : e.key # k)

\* ------------------------------------------------ convert_drive_url
IdToks == {"https", "drive", "docs", "file", "d", "open", "uc", "x", "y"}
OtherToks == {"://", ".google.com", "/", "?id=", "?export=download&id=", "?"}
UrlToks == IdToks \cup OtherToks

\* the literal text of the three patterns, before the group ([a-zA-Z0-9_-]+)
Pattern1 == <<"https", "://", "drive", ".google.com", "/", "file", "/", "d", "/">>
Pattern2 == <<"https", "://", "drive", ".google.com", "/", "open", "?id=">>
Pattern3Host == <<"https", "://", "docs", ".google.com", "/">>
Pattern3Tail == <<"/", "d", "/">>
\* f"https://drive.google.com/uc?export=download&id={file_id}"
DirectPrefix == <<"https", "://", "drive", ".google.com", "/", "uc", "?export=download&id=">>

LitAt(u, i, lit) == i + Len(lit) - 1 <= Len(u) /\ SubSeq(u, i, i + Len(lit) - 1) = lit
IdAt(u, j) == j <= Len(u) /\ u[j] \in IdToks

\* ([a-zA-Z0-9_-]+) from position j: the longest run of identifier text
RECURSIVE IdRun(_, _)
IdRun(u, j) == IF IdAt(u, j) THEN <<u[j]>> \o IdRun(u, j + 1) ELSE <<>>

SetMin(S) == CHOOSE m \in S : \A n \in S : m <= n

\* re.search(literal + group, url): group(1) of the leftmost match, <<>> when none
search_literal(u, lit) ==
    LET starts == {i \in 1..Len(u) : LitAt(u, i, lit) /\ IdAt(u, i + Len(lit))}
    IN  IF starts = {} THEN <<>> ELSE IdRun(u, SetMin(starts) + Len(lit))

\* re.search(r'https://docs\.google\.com/.*?/d/([a-zA-Z0-9_-]+)', url): the leftmost
\* host, then the first /d/ after it that an identifier follows
search_docs(u) ==
    LET tails(i) == {j \in (i + Len(Pattern3Host))..Len(u) :
                        LitAt(u, j, Pattern3Tail) /\ IdAt(u, j + Len(Pattern3Tail))}
        starts == {i \in 1..Len(u) : LitAt(u, i, Pattern3Host) /\ tails(i) # {}}
    IN  IF starts = {} THEN <<>>
        ELSE IdRun(u, SetMin(tails(SetMin(starts))) + Len(Pattern3Tail))

\* (as convert_drive_url, with the first pattern alone)
convert_drive_url_firstOnly(url) ==
    IF search_literal(url, Pattern1) # <<>>
    THEN DirectPrefix \o search_literal(url, Pattern1)
    ELSE url

convert_drive_url(url) ==
    IF search_literal(url, Pattern1) # <<>>
    THEN DirectPrefix \o search_literal(url, Pattern1)
    ELSE IF search_literal(url, Pattern2) # <<>>
    THEN DirectPrefix \o search_literal(url, Pattern2)
    ELSE IF search_docs(url) # <<>>
    THEN DirectPrefix \o search_docs(url)
    ELSE url

\* ------------------------------------------------------ name resolver
\* get_movie_url: the loop over self.movie_list.items(), from entry i on
RECURSIVE get_movie_url_from(_, _, _)
get_movie_url_from(d, movie_name, i) ==
    IF i > Len(d) THEN NoneStr
    ELSE IF fold(d[i].key) = movie_name THEN convert_drive_url(d[i].url)
    ELSE get_movie_url_from(d, movie_name, i + 1)

\* (as get_movie_url, matching a key that starts with the name)
get_movie_url_prefix(d, movie_name) ==
    LET hits == {i \in 1..Len(d) : startswith(fold(d[i].key), fold(movie_name))}
    IN  IF hits = {} THEN NoneStr ELSE convert_drive_url(d[SetMin(hits)].url)
get_movie_url(d, movie_name) == get_movie_url_from(d, fold(movie_name), 1)

\* find_movie_name: the loop over self.movie_list.keys(), from entry i on
RECURSIVE find_movie_name_from(_, _, _)
find_movie_name_from(d, movie_name, i) ==
    IF i > Len(d) THEN NoneStr
    ELSE IF fold(d[i].key) = movie_name THEN d[i].key
    ELSE find_movie_name_from(d, movie_name, i + 1)

find_movie_name(d, movie_name) == find_movie_name_from(d, fold(movie_name), 1)

\* list_movies
list_movies(d) == dict_keys(d)

\* seq[:n]
take(s, n) == SubSeq(s, 1, IF Len(s) < n THEN Len(s) ELSE n)

\* movie_autocomplete: the names of the choices returned
\* (as movie_autocomplete, the matches in registry order)
autocomplete_noPrefixFirst(d, current) ==
    IF current = <<>> THEN take(list_movies(d), SuggestLimit)
    ELSE take(SelectSeq(list_movies(d), LAMBDA m : contains(lower(m), lower(current))),
              SuggestLimit)
movie_autocomplete(d, current) ==
    LET movies == list_movies(d)
        current_lower == lower(current)
        first == SelectSeq(movies, LAMBDA m : startswith(lower(m), current_lower))
        second == SelectSeq(movies, LAMBDA m :
                      contains(lower(m), current_lower)
                      /\ ~startswith(lower(m), current_lower))
    IN  IF current = <<>> THEN take(movies, SuggestLimit)
        ELSE take(first \o second, SuggestLimit)

\* ------------------------------------------------------------ the bot
Guilds == {"g1"}
Channels == {"c1", "c2"}          \* voice channels of the guild
Members == {"u1"}                 \* human (non-bot) members who use voice
Handles == 1..MaxHandles          \* voice client objects

\* sample inputs of the commands
UrlShare == Pattern1 \o <<"x">>
UrlDirect == DirectPrefix \o <<"y">>
UrlOther == <<"https", "://", "x", "/", "y">>
UrlInputs == {UrlShare, UrlDirect, UrlOther}
NameInputs == {<<"A", "b">>, <<"a", " ", "b">>, <<" ", "a">>}
\* the few inputs of the specification that runs every handler
PlayNames == {<<"a", "b">>, <<"a">>}
FewNames == {<<"A", " ", "b">>}
FewUrls == {UrlShare, UrlOther}

VARIABLES
    movie_list,        \* MovieBot.movie_list: dict name -> url
    disk,              \* movies.json: whether it is present, and the object's members
    current_streams,   \* MovieBot.current_streams: guild -> voice client, None when absent
    voice_clients,     \* the library's own record of the guild's voice client
    vc,                \* the voice client objects: state and channel
    loc,               \* the voice channel each human member is in, None when in none
    task,              \* the suspended handler coroutines, a bag: where each is, its locals
    resp,              \* what the last step reported to the user, if anything
    query,             \* resolver specification: the name or prefix given
    result             \* resolver specification: what the resolver returned

vars == <<movie_list, disk, current_streams, voice_clients, vc, loc, task, resp, query, result>>

BlankTask == [pc |-> "new", g |-> None, user |-> None, h |-> NoHandle, name |-> <<>>, url |-> <<>>]
FreeVc == [st |-> "free", channel |-> None, g |-> None]
NoResp == [cmd |-> None, g |-> None, out |-> None]
NoResult == [op |-> None]

\* json.dump(movie_list, f): the object's members, a "key": "url" pair per key of
\* the dict, in the dict's order
json_dump(d) == [i \in 1..Len(d) |-> <<d[i].key, d[i].url>>]
\* json.load(f): a dict built from the members in order (a repeated key keeps its
\* first place and takes the last value)
RECURSIVE json_load_from(_, _)
json_load_from(members, d) ==
    IF members = <<>> THEN d
    ELSE json_load_from(Tail(members), dict_set(d, Head(members)[1], Head(members)[2]))
\* (as json.load, the members taken last to first)
json_load_lastFirst(members) ==
    json_load_from([i \in 1..Len(members) |-> members[Len(members) + 1 - i]], <<>>)
json_load(members) == json_load_from(members, <<>>)

\* ---------------------------------------------------------- the library
\* voice clients nobody refers to any more are collected
Referenced(h, nt, ncs, nslot) ==
    \/ \E g \in Guilds : ncs[g] = h \/ nslot[g] = h
    \/ \E r \in BagToSet(nt) : r.h = h
Collect(nvc, nt, ncs, nslot) ==
    [h \in Handles |->
        IF nvc[h].st = "disconnected" /\ ~Referenced(h, nt, ncs, nslot)
        THEN FreeVc ELSE nvc[h]]

\* the end of a handler's step: every variable of the session side
Commit(nt, ncs, nslot, nvc) ==
    /\ task' = nt
    /\ current_streams' = ncs
    /\ voice_clients' = nslot
    /\ vc' = Collect(nvc, nt, ncs, nslot)

\* VoiceClient.disconnect() done: the client is disconnected and no longer the guild's
lib_disconnected_vc(h) == [vc EXCEPT ![h].st = "disconnected"]
lib_disconnected_slot(h) ==
    [g \in Guilds |-> IF voice_clients[g] = h THEN NoHandle ELSE voice_clients[g]]

\* [m for m in voice_client.channel.members if not m.bot]
human_members(h) == {m \in Members : loc[m] = vc[h].channel}

\* coroutine r is over / is suspended again as rec / a new coroutine is suspended
Finish(r) == task (-) SetToBag({r})
Suspend(r, rec) == (task (-) SetToBag({r})) (+) SetToBag({rec})
Spawn(rec) == task (+) SetToBag({rec})
Running(r) == BagIn(r, task)
Respond(cmd, g, out) == resp' = [cmd |-> cmd, g |-> g, out |-> out]
Silent == resp' = [cmd |-> None, g |-> None, out |-> None]

\* the model holds at most MaxTasks coroutines: a handler that suspends needs room
CanStart == BagCardinality(task) < MaxTasks

RegistrySide == <<movie_list, disk>>
ResolverSide == <<query, result>>
Same(r) == Commit(Finish(r), current_streams, voice_clients, vc)
SameNew == Commit(task, current_streams, voice_clients, vc)
MinFree == SetMin({h \in Handles : vc[h].st = "free"})
del_if_present(g) == [current_streams EXCEPT ![g] = NoHandle]

\* ------------------------------------------------------------ /play
\* (as play_movie, the check of current_streams forgotten)
play_movie_noCheck(g, user, movie) ==
    /\ CanStart
    /\ UNCHANGED <<RegistrySide, ResolverSide, loc>>
    /\ IF loc[user] = None
       THEN Respond("play", g, "NotInVoice") /\ SameNew
       ELSE IF get_movie_url(movie_list, movie) \in {NoneStr, <<>>}
               \/ find_movie_name(movie_list, movie) \in {NoneStr, <<>>}
       THEN Respond("play", g, "NotFound") /\ SameNew
       ELSE /\ Silent
            /\ Commit(Spawn([BlankTask EXCEPT !.pc = "play_verify", !.g = g, !.user = user]),
                      current_streams, voice_clients, vc)

\* play_movie up to its first await (lines 151-181)
play_movie(g, user, movie) ==
    /\ CanStart
    /\ UNCHANGED <<RegistrySide, ResolverSide, loc>>
    /\ LET movie_url == get_movie_url(movie_list, movie)
           exact_movie_name == find_movie_name(movie_list, movie)
       IN  IF loc[user] = None
           THEN Respond("play", g, "NotInVoice") /\ SameNew
           ELSE IF movie_url \in {NoneStr, <<>>} \/ exact_movie_name \in {NoneStr, <<>>}
           THEN Respond("play", g, "NotFound") /\ SameNew
           ELSE IF current_streams[g] # NoHandle /\ vc[current_streams[g]].channel # None
           THEN Respond("play", g, "AlreadyActive") /\ SameNew
           ELSE /\ Silent
                /\ Commit(Spawn([BlankTask EXCEPT !.pc = "play_verify", !.g = g,
                                                      !.user = user]),
                          current_streams, voice_clients, vc)

\* verify_url returned (ok: reachable); then voice_channel.connect() is called
\* (lines 185-202): it raises when the guild has a voice client, else registers one
play_verified(r, ok) ==
    /\ Running(r) /\ r.pc = "play_verify"
    /\ UNCHANGED <<RegistrySide, ResolverSide, loc>>
    /\ LET g == r.g
           user == r.user
       IN  IF ~ok
           THEN Respond("play", g, "Unreachable") /\ Same(r)
           ELSE IF loc[user] = None
           THEN \* interaction.user.voice is None: AttributeError, line 247
                /\ Respond("play", g, "Error")
                /\ Commit(Finish(r), del_if_present(g), voice_clients, vc)
           ELSE IF voice_clients[g] # NoHandle
           THEN \* ClientException: already connected, line 242
                Respond("play", g, "AlreadyConnected") /\ Same(r)
           ELSE /\ {h \in Handles : vc[h].st = "free"} # {}
                /\ Silent
                /\ Commit(Suspend(r, [r EXCEPT !.pc = "play_connect", !.h = MinFree]),
                          current_streams,
                          [voice_clients EXCEPT ![g] = MinFree],
                          [vc EXCEPT ![MinFree] =
                              [st |-> "connecting", channel |-> loc[user], g |-> g]])

\* connect() returned the voice client (ok) or raised (lines 202-205, 247-256)
play_connected(r, ok) ==
    /\ Running(r) /\ r.pc = "play_connect"
    /\ UNCHANGED <<RegistrySide, ResolverSide, loc>>
    /\ LET g == r.g
           h == r.h
       IN  IF ok
           THEN /\ Silent
                /\ Commit(Suspend(r, [r EXCEPT !.pc = "play_send"]),
                          [current_streams EXCEPT ![g] = h],
                          voice_clients,
                          [vc EXCEPT ![h].st = "connected"])
           ELSE \* the library drops the client; voice_client was never assigned
                /\ Respond("play", g, "Error")
                /\ Commit(Finish(r), del_if_present(g),
                          lib_disconnected_slot(h), lib_disconnected_vc(h))

\* the followup messages were sent (ok) or raised (lines 234-240, 247-256)
play_sent(r, ok) ==
    /\ Running(r) /\ r.pc = "play_send"
    /\ UNCHANGED <<RegistrySide, ResolverSide, loc>>
    /\ LET g == r.g
           h == r.h
       IN  IF ok
           THEN Respond("play", g, "Started") /\ Same(r)
           ELSE IF vc[h].st # "connected"
           THEN \* disconnect() of a client not connected returns at once
                /\ Respond("play", g, "Error")
                /\ Commit(Finish(r), del_if_present(g), voice_clients, vc)
           ELSE /\ Silent
                /\ Commit(Suspend(r, [r EXCEPT !.pc = "play_disc"]),
                          del_if_present(g), voice_clients, vc)

\* the disconnect() of the except branch is over (lines 251-256)
play_disconnected(r) ==
    /\ Running(r) /\ r.pc = "play_disc"
    /\ UNCHANGED <<RegistrySide, ResolverSide, loc>>
    /\ Respond("play", r.g, "Error")
    /\ Commit(Finish(r), current_streams,
              lib_disconnected_slot(r.h), lib_disconnected_vc(r.h))

\* ------------------------------------------------------------ /stop
\* stop_movie up to its await of disconnect() (lines 261-271)
stop_movie(g) ==
    /\ CanStart
    /\ UNCHANGED <<RegistrySide, ResolverSide, loc>>
    /\ IF current_streams[g] = NoHandle
       THEN Respond("stop", g, "NotActive") /\ SameNew
       ELSE IF vc[current_streams[g]].st # "connected"
       THEN \* disconnect() of a client not connected returns at once
            /\ Respond("stop", g, "Stopped")
            /\ Commit(task, del_if_present(g), voice_clients, vc)
       ELSE /\ Silent
            /\ Commit(Spawn([BlankTask EXCEPT !.pc = "stop_disc", !.g = g,
                                                  !.h = current_streams[g]]),
                      current_streams, voice_clients, vc)

\* disconnect() returned (ok) or raised; then del current_streams[guild_id]
\* (lines 271-284)
stop_disconnected(r, ok) ==
    /\ Running(r) /\ r.pc = "stop_disc"
    /\ UNCHANGED <<RegistrySide, ResolverSide, loc>>
    /\ LET g == r.g
           h == r.h
       IN  IF ok /\ current_streams[g] # NoHandle
           THEN /\ Respond("stop", g, "Stopped")
                /\ Commit(Finish(r), del_if_present(g),
                          lib_disconnected_slot(h), lib_disconnected_vc(h))
           ELSE \* the exception of disconnect(), or the KeyError of del
                /\ Respond("stop", g, "Error")
                /\ Commit(Finish(r), current_streams,
                          lib_disconnected_slot(h), lib_disconnected_vc(h))

\* ------------------------------------------------ on_voice_state_update
\* a member's voice state changed: the handler up to asyncio.sleep(30)
\* (lines 477-491)
on_voice_state_update(g) ==
    /\ CanStart
    /\ UNCHANGED <<RegistrySide, ResolverSide, loc>>
    /\ IF current_streams[g] = NoHandle
       THEN Respond("voice", g, "NoSession") /\ SameNew
       ELSE IF vc[current_streams[g]].channel # None /\ human_members(current_streams[g]) = {}
       THEN /\ Silent
            /\ Commit(Spawn([BlankTask EXCEPT !.pc = "idle_sleep", !.g = g,
                                                  !.h = current_streams[g]]),
                      current_streams, voice_clients, vc)
       ELSE Respond("voice", g, "NotEmpty") /\ SameNew

\* (as idle_check, trusting the occupancy seen before the sleep)
idle_check_noRecheck(r) ==
    /\ Running(r) /\ r.pc = "idle_sleep"
    /\ UNCHANGED <<RegistrySide, ResolverSide, loc>>
    /\ IF current_streams[r.g] # NoHandle
       THEN IF vc[r.h].st # "connected"
            THEN /\ Respond("voice", r.g, "Evicted")
                 /\ Commit(Finish(r), del_if_present(r.g), voice_clients, vc)
            ELSE /\ Silent
                 /\ Commit(Suspend(r, [r EXCEPT !.pc = "idle_disc"]),
                           current_streams, voice_clients, vc)
       ELSE Respond("voice", r.g, "NoOp") /\ Same(r)

\* the sleep is over: the check after the delay (lines 493-497)
idle_check(r) ==
    /\ Running(r) /\ r.pc = "idle_sleep"
    /\ UNCHANGED <<RegistrySide, ResolverSide, loc>>
    /\ LET g == r.g
           h == r.h
       IN  IF vc[h].channel # None /\ current_streams[g] # NoHandle /\ human_members(h) = {}
           THEN IF vc[h].st # "connected"
                THEN \* disconnect() of a client not connected returns at once
                     /\ Respond("voice", g, "Evicted")
                     /\ Commit(Finish(r), del_if_present(g), voice_clients, vc)
                ELSE /\ Silent
                     /\ Commit(Suspend(r, [r EXCEPT !.pc = "idle_disc"]),
                               current_streams, voice_clients, vc)
           ELSE Respond("voice", g, "NoOp") /\ Same(r)

\* disconnect() returned (ok) or raised (lines 497-500)
idle_disconnected(r, ok) ==
    /\ Running(r) /\ r.pc = "idle_disc"
    /\ UNCHANGED <<RegistrySide, ResolverSide, loc>>
    /\ LET g == r.g
           h == r.h
       IN  IF ok
           THEN /\ Respond("voice", g, "Evicted")
                /\ Commit(Finish(r), del_if_present(g),
                          lib_disconnected_slot(h), lib_disconnected_vc(h))
           ELSE /\ Respond("voice", g, "Error")
                /\ Commit(Finish(r), current_streams,
                          lib_disconnected_slot(h), lib_disconnected_vc(h))

\* a human member joins, leaves or changes voice channel
member_moves(m, c) ==
    /\ loc[m] # c
    /\ loc' = [loc EXCEPT ![m] = c]
    /\ Silent
    /\ UNCHANGED <<RegistrySide, ResolverSide, current_streams, voice_clients, vc, task>>

\* -------------------------------------------------- registry commands
SessionSide == <<current_streams, voice_clients, vc, loc>>

\* load_movie_list / save_movie_list on movies.json
load_movie_list(file) == IF file.present THEN json_load(file.members) ELSE <<>>
save_movie_list(d) == [present |-> TRUE, members |-> json_dump(d)]

\* (as add_movie, the permission check forgotten)
add_movie_noAdmin(administrator, name, google_drive_url) ==
    /\ CanStart
    /\ UNCHANGED <<RegistrySide, ResolverSide, SessionSide>>
    /\ IF ~contains(google_drive_url, <<"drive", ".google.com">>)
          /\ ~contains(google_drive_url, <<"docs", ".google.com">>)
       THEN Respond("add_movie", None, "InvalidUrl") /\ UNCHANGED task
       ELSE /\ Silent
            /\ task' = Spawn([BlankTask EXCEPT !.pc = "add_verify", !.name = name,
                                              !.url = google_drive_url])

\* add_movie up to its await of verify_url (lines 323-337)
add_movie(administrator, name, google_drive_url) ==
    /\ CanStart
    /\ UNCHANGED <<RegistrySide, ResolverSide, SessionSide>>
    /\ IF ~administrator
       THEN Respond("add_movie", None, "PermissionDenied") /\ UNCHANGED task
       ELSE IF ~contains(google_drive_url, <<"drive", ".google.com">>)
               /\ ~contains(google_drive_url, <<"docs", ".google.com">>)
       THEN Respond("add_movie", None, "InvalidUrl") /\ UNCHANGED task
       ELSE /\ Silent
            /\ task' = Spawn([BlankTask EXCEPT !.pc = "add_verify", !.name = name,
                                              !.url = google_drive_url])

\* (as add_verified, storing the converted URL)
add_verified_storesConverted(r, ok) ==
    /\ Running(r) /\ r.pc = "add_verify"
    /\ UNCHANGED <<ResolverSide, SessionSide>>
    /\ task' = Finish(r)
    /\ IF ~ok
       THEN Respond("add_movie", None, "Unreachable") /\ UNCHANGED RegistrySide
       ELSE LET stored == dict_set(movie_list, strip(r.name), convert_drive_url(r.url))
            IN  /\ Len(stored) <= MaxMovies
                /\ disk' = save_movie_list(stored)
                /\ movie_list' = load_movie_list(save_movie_list(stored))
                /\ Respond("add_movie", None, "Added")

\* verify_url returned (ok: reachable): store, save and reload (lines 337-357)
add_verified(r, ok) ==
    /\ Running(r) /\ r.pc = "add_verify"
    /\ UNCHANGED <<ResolverSide, SessionSide>>
    /\ task' = Finish(r)
    /\ IF ~ok
       THEN Respond("add_movie", None, "Unreachable") /\ UNCHANGED RegistrySide
       ELSE LET movie_key == strip(r.name)
                stored == dict_set(movie_list, movie_key, r.url)
            IN  /\ Len(stored) <= MaxMovies
                /\ disk' = save_movie_list(stored)
                /\ movie_list' = load_movie_list(save_movie_list(stored))
                /\ Respond("add_movie", None, "Added")

\* (as remove_movie, ending the watch parties as well)
remove_movie_endsSessions(administrator, name) ==
    /\ UNCHANGED <<ResolverSide, voice_clients, vc, loc, task>>
    /\ LET hits == {i \in 1..Len(movie_list) : lower(movie_list[i].key) = lower(name)}
           movie_key == IF hits = {} THEN NoneStr ELSE movie_list[SetMin(hits)].key
       IN  IF ~administrator
           THEN /\ Respond("remove_movie", None, "PermissionDenied")
                /\ UNCHANGED <<RegistrySide, current_streams>>
           ELSE IF movie_key \in {NoneStr, <<>>}
           THEN /\ Respond("remove_movie", None, "NotFound")
                /\ UNCHANGED <<RegistrySide, current_streams>>
           ELSE /\ movie_list' = dict_del(movie_list, movie_key)
                /\ disk' = save_movie_list(dict_del(movie_list, movie_key))
                /\ current_streams' = [g \in Guilds |-> NoHandle]
                /\ Respond("remove_movie", None, "Removed")

\* remove_movie (lines 374-393); it awaits nothing before it is done
remove_movie(administrator, name) ==
    /\ UNCHANGED <<ResolverSide, SessionSide, task>>
    /\ LET hits == {i \in 1..Len(movie_list) : lower(movie_list[i].key) = lower(name)}
           movie_key == IF hits = {} THEN NoneStr ELSE movie_list[SetMin(hits)].key
       IN  IF ~administrator
           THEN Respond("remove_movie", None, "PermissionDenied") /\ UNCHANGED RegistrySide
           ELSE IF movie_key \in {NoneStr, <<>>}
           THEN Respond("remove_movie", None, "NotFound") /\ UNCHANGED RegistrySide
           ELSE /\ movie_list' = dict_del(movie_list, movie_key)
                /\ disk' = save_movie_list(dict_del(movie_list, movie_key))
                /\ Respond("remove_movie", None, "Removed")

\* ------------------------------------------------------ specifications
NoFile == [present |-> FALSE, members |-> <<>>]
InitFiles == {NoFile,
              [present |-> TRUE, members |-> << <<(<<"A", " ", "b">>), UrlShare>> >>]}

\* the state after  movie_bot = MovieBot()  (lines 28-45, 99)
Init ==
    /\ \E file \in InitFiles :
          /\ movie_list = load_movie_list(file)
          /\ disk = IF file.present THEN file ELSE save_movie_list(<<>>)
    /\ current_streams = [g \in Guilds |-> NoHandle]
    /\ voice_clients = [g \in Guilds |-> NoHandle]
    /\ vc = [h \in Handles |-> FreeVc]
    /\ loc = [m \in Members |-> None]
    /\ task = EmptyBag
    /\ resp = NoResp
    /\ query = <<>>
    /\ result = NoResult

NextSession ==
    \/ \E g \in Guilds, u \in Members, n \in PlayNames : play_movie(g, u, n)
    \/ \E r \in BagToSet(task), ok \in BOOLEAN : play_verified(r, ok)
    \/ \E r \in BagToSet(task), ok \in BOOLEAN : play_connected(r, ok)
    \/ \E r \in BagToSet(task), ok \in BOOLEAN : play_sent(r, ok)
    \/ \E r \in BagToSet(task) : play_disconnected(r)
    \/ \E g \in Guilds : stop_movie(g)
    \/ \E r \in BagToSet(task), ok \in BOOLEAN : stop_disconnected(r, ok)
    \/ \E g \in Guilds : on_voice_state_update(g)
    \/ \E r \in BagToSet(task) : idle_check(r)
    \/ \E r \in BagToSet(task), ok \in BOOLEAN : idle_disconnected(r, ok)
    \/ \E m \in Members, c \in Channels \cup {None} : member_moves(m, c)

NextRegistry(names, urls) ==
    \/ \E a \in BOOLEAN, n \in names, url \in urls : add_movie(a, n, url)
    \/ \E r \in BagToSet(task), ok \in BOOLEAN : add_verified(r, ok)
    \/ \E a \in BOOLEAN, n \in names : remove_movie(a, n)

Next == NextSession \/ NextRegistry(FewNames, FewUrls)

\* every handler of the bot, the registry commands on a few inputs
Spec == Init /\ [][Next]_vars
\* the registry commands alone, on more inputs
SpecRegistry == Init /\ [][NextRegistry(NameInputs, UrlInputs)]_vars

\* ------------------------------------------- the resolver, on drawn inputs
KeyInputs == {<<"A", "b">>, <<"a", " ", "b">>, <<"a">>, <<"b", "a">>, <<"-", "a">>}
Entries == [key : KeyInputs, url : {UrlShare, UrlDirect}]
Registries ==
    {d \in UNION {[1..n -> Entries] : n \in 0..MaxMovies} :
        \A i, j \in DOMAIN d : d[i].key = d[j].key => i = j}
\* registries longer than the 25 choices autocomplete returns
LongKey(i) == (IF i % 2 = 0 THEN <<"b">> ELSE <<>>) \o [j \in 1..i |-> "a"]
LongRegistry(n) == [i \in 1..n |-> [key |-> LongKey(i), url |-> UrlDirect]]
LongRegistries == {LongRegistry(SuggestLimit), LongRegistry(SuggestLimit + 2)}
Queries == SeqsUpTo(NameChars, MaxNameLen)

InitResolver ==
    /\ movie_list \in Registries \cup LongRegistries
    /\ disk = save_movie_list(movie_list)
    /\ current_streams = [g \in Guilds |-> NoHandle]
    /\ voice_clients = [g \in Guilds |-> NoHandle]
    /\ vc = [h \in Handles |-> FreeVc]
    /\ loc = [m \in Members |-> None]
    /\ task = EmptyBag
    /\ resp = NoResp
    /\ query \in Queries
    /\ result = NoResult

\* movie_url = get_movie_url(movie); exact_movie_name = find_movie_name(movie)
resolve ==
    /\ result = NoResult
    /\ result' = [op |-> "resolve", url |-> get_movie_url(movie_list, query),
                  name |-> find_movie_name(movie_list, query)]
    /\ UNCHANGED <<RegistrySide, SessionSide, task, resp, query>>

\* the choices movie_autocomplete(interaction, current) returns
suggest ==
    /\ result = NoResult
    /\ result' = [op |-> "suggest", names |-> movie_autocomplete(movie_list, query)]
    /\ UNCHANGED <<RegistrySide, SessionSide, task, resp, query>>

NextResolver == resolve \/ suggest

SpecResolver == InitResolver /\ [][NextResolver]_vars

\* --------------------------------------- convert_drive_url, on drawn inputs
\* URLs drawn as text before, one of the known beginnings, and a tail of tokens
UrlHeads == {Pattern1, Pattern2, Pattern3Host, Pattern3Host \o Pattern3Tail,
             Pattern3Host \o <<"x">> \o Pattern3Tail, DirectPrefix,
             <<"drive", ".google.com", "/", "file", "/", "d", "/">>, <<>>}
UrlBefore == {<<>>, <<"x", "?">>}
UrlTailToks == {"x", "/", "d", "?", "y"}
UrlDraws ==
    {b \o h \o t : b \in UrlBefore, h \in UrlHeads, t \in SeqsUpTo(UrlTailToks, MaxTailLen)}

InitConvert ==
    /\ movie_list = <<>>
    /\ disk = save_movie_list(movie_list)
    /\ current_streams = [g \in Guilds |-> NoHandle]
    /\ voice_clients = [g \in Guilds |-> NoHandle]
    /\ vc = [h \in Handles |-> FreeVc]
    /\ loc = [m \in Members |-> None]
    /\ task = EmptyBag
    /\ resp = NoResp
    /\ query \in UrlDraws
    /\ result = NoResult

\* converted_url = movie_bot.convert_drive_url(google_drive_url)
convert ==
    /\ result = NoResult
    /\ result' = [op |-> "convert", url |-> convert_drive_url(query)]
    /\ UNCHANGED <<RegistrySide, SessionSide, task, resp, query>>

\* convert_drive_url applied to a URL it returned (get_movie_url on a stored result)
convert_again ==
    /\ result.op = "convert"
    /\ result' = [op |-> "convert_again", url |-> result.url,
                  again |-> convert_drive_url(result.url)]
    /\ UNCHANGED <<RegistrySide, SessionSide, task, resp, query>>

NextConvert == convert \/ convert_again

SpecConvert == InitConvert /\ [][NextConvert]_vars

\* --------------------------------------------- movies.json, on drawn files
\* files of up to MaxMovies members, a key twice among them, and no file at all
FileMembers == {<<k, u>> : k \in KeyInputs, u \in {UrlShare, UrlDirect}}
DrawnFiles ==
    {NoFile} \cup
    {[present |-> TRUE, members |-> ms] :
        ms \in UNION {[1..n -> FileMembers] : n \in 0..MaxMovies}}

InitPersist ==
    /\ movie_list = <<>>
    /\ disk \in DrawnFiles
    /\ current_streams = [g \in Guilds |-> NoHandle]
    /\ voice_clients = [g \in Guilds |-> NoHandle]
    /\ vc = [h \in Handles |-> FreeVc]
    /\ loc = [m \in Members |-> None]
    /\ task = EmptyBag
    /\ resp = NoResp
    /\ query = <<>>
    /\ result = NoResult

\* self.movie_list = self.load_movie_list(): an absent file is created, empty
startup ==
    /\ result = NoResult
    /\ movie_list' = load_movie_list(disk)
    /\ disk' = IF disk.present THEN disk ELSE save_movie_list(<<>>)
    /\ result' = [op |-> "load", file |-> disk]
    /\ UNCHANGED <<SessionSide, task, resp, query>>

\* movie_bot.save_movie_list(movie_bot.movie_list)
resave ==
    /\ result.op = "load"
    /\ disk' = save_movie_list(movie_list)
    /\ result' = [op |-> "save", file |-> result.file]
    /\ UNCHANGED <<movie_list, SessionSide, task, resp, query>>

NextPersist == startup \/ resave

SpecPersist == InitPersist /\ [][NextPersist]_vars

\* ================================================================ claims
\* q is n up to letter case and inserted or removed spaces, hyphens, underscores
Separators == {" ", "-", "_"}
SameLetter(a, b) == a = b \/ {a, b} \in {{"a", "A"}, {"b", "B"}}
RECURSIVE Variant(_, _)
Variant(q, n) ==
    IF q # <<>> /\ Head(q) \in Separators THEN Variant(Tail(q), n)
    ELSE IF n # <<>> /\ Head(n) \in Separators THEN Variant(q, Tail(n))
    ELSE IF q = <<>> \/ n = <<>> THEN q = n
    ELSE SameLetter(Head(q), Head(n)) /\ Variant(Tail(q), Tail(n))

Keys == 1..Len(movie_list)
VariantKeys(q) == {i \in Keys : Variant(q, movie_list[i].key)}

\* C8, as claimed: resolving any case/space/hyphen/underscore variant of a key n
\* returns exactly the locator stored under n.
C8_ReturnsStoredLocator ==
    result.op = "resolve" =>
        \A i \in VariantKeys(query) : result.url = movie_list[i].url

\* C8, amended: resolving any variant of a key n returns convert_drive_url of the
\* locator stored under the first key, in insertion order, that is a variant of n
\* (n itself when no earlier key is one).
C8_ReturnsConvertedFirst ==
    result.op = "resolve" =>
        \A i \in VariantKeys(query) :
            result.url =
                convert_drive_url(movie_list[SetMin(VariantKeys(movie_list[i].key))].url)

C8_Witness ==
    /\ result.op = "resolve"
    /\ \E i \in VariantKeys(query) :
          /\ query # movie_list[i].key
          /\ VariantKeys(movie_list[i].key) = {i}
          /\ result.url = convert_drive_url(movie_list[i].url)
          /\ result.url # movie_list[i].url

KeyOf(name) == CHOOSE i \in Keys : movie_list[i].key = name
Starts(i) == startswith(lower(movie_list[i].key), lower(query))
Contains(i) == contains(lower(movie_list[i].key), lower(query))
Before(i, j) == (Starts(i) /\ ~Starts(j)) \/ (Starts(i) = Starts(j) /\ i < j)
C10_SuggestionOrder ==
    result.op = "suggest" =>
        LET names == result.names
            listed == {KeyOf(names[k]) : k \in 1..Len(names)}
            matching == {i \in Keys : Contains(i)}
        IN  /\ \A k \in 1..Len(names) : \E i \in matching : movie_list[i].key = names[k]
            /\ \A k, l \in 1..Len(names) : names[k] = names[l] => k = l
            /\ \A k, l \in 1..Len(names) : k < l => Before(KeyOf(names[k]), KeyOf(names[l]))
            /\ Len(names) = IF Cardinality(matching) < SuggestLimit
                            THEN Cardinality(matching) ELSE SuggestLimit
            /\ \A i \in matching \ listed : \A j \in listed : Before(j, i)
            /\ query = <<>> => names = SubSeq(dict_keys(movie_list), 1, Len(names))

C10_Witness ==
    /\ result.op = "suggest"
    /\ Len(movie_list) > SuggestLimit
    /\ Len(result.names) = SuggestLimit
    /\ \E k, l \in 1..Len(result.names) :
          k < l /\ KeyOf(result.names[k]) > KeyOf(result.names[l])
    /\ \E i \in Keys : Contains(i) /\ \A k \in 1..Len(result.names) : result.names[k] # movie_list[i].key

\* ---------------------------------------------------------- the sessions
Suspended == BagToSet(task)
Released(h) == vc'[h].st \in {"disconnected", "free"}
NoneDisconnected == \A h \in Handles : vc[h].st = "connected" => vc'[h].st = "connected"
SessionsUntouched == current_streams' = current_streams /\ NoneDisconnected
Resolves(n) == \E i \in VariantKeys(n) : movie_list[i].key # <<>>

\* C1: an idle check that wakes up after its session was stopped and a new
\* session was started for the guild neither removes the new session's entry nor
\* reports an eviction.
C1_StaleTimerSparesNewSession ==
    [][\A r \in Suspended :
          /\ idle_check(r) \/ \E ok \in BOOLEAN : idle_disconnected(r, ok)
          /\ current_streams[r.g] # NoHandle
          /\ current_streams[r.g] # r.h
          => /\ current_streams'[r.g] = current_streams[r.g]
             /\ resp'.out # "Evicted"]_vars

\* C2: when the idle check wakes up and a human is in the voice channel of the
\* session it was scheduled for, it is a no-op: no voice client is disconnected and
\* the session table is unchanged.
C2_RecheckAtFireTime ==
    [][\A r \in Suspended :
          idle_check(r) /\ human_members(r.h) # {}
          => /\ resp' = [cmd |-> "voice", g |-> r.g, out |-> "NoOp"]
             /\ SessionsUntouched
             /\ task' = Finish(r)]_vars

C2_Witness ==
    /\ resp.cmd = "voice" /\ resp.out = "NoOp"
    /\ \E g \in Guilds :
          /\ current_streams[g] # NoHandle
          /\ vc[current_streams[g]].st = "connected"
          /\ human_members(current_streams[g]) # {}

\* C3, as claimed: a /play for a guild that has a session entry fails with
\* AlreadyActive, opens no voice connection and leaves the entry unchanged; a /play
\* that connects inserts exactly the voice client it opened.
C3_PlayRejectedAlreadyActive ==
    [][/\ \A g \in Guilds, u \in Members, n \in PlayNames :
             play_movie(g, u, n) /\ current_streams[g] # NoHandle
             => /\ resp' = [cmd |-> "play", g |-> g, out |-> "AlreadyActive"]
                /\ UNCHANGED <<current_streams, voice_clients, vc, task>>
       /\ \A r \in Suspended :
             play_connected(r, TRUE)
             => current_streams'[r.g] = r.h /\ vc'[r.h].st = "connected"]_vars

\* C3, amended: a /play for a guild that has a session entry fails, opens no voice
\* connection and leaves the entry unchanged; it fails with AlreadyActive when the
\* caller is in a voice channel and the name resolves, with NotInVoice or NotFound
\* (checked first) otherwise; a /play that connects inserts exactly the voice
\* client it opened.
C3_PlayRejectedWhileActive ==
    [][/\ \A g \in Guilds, u \in Members, n \in PlayNames :
             play_movie(g, u, n) /\ current_streams[g] # NoHandle
             => /\ resp' = [cmd |-> "play", g |-> g,
                            out |-> IF loc[u] = None THEN "NotInVoice"
                                    ELSE IF ~Resolves(n) THEN "NotFound"
                                    ELSE "AlreadyActive"]
                /\ UNCHANGED <<current_streams, voice_clients, vc, task>>
       /\ \A r \in Suspended :
             play_connected(r, TRUE)
             => current_streams'[r.g] = r.h /\ vc'[r.h].st = "connected"]_vars

C3_Witness ==
    /\ resp.cmd = "play" /\ resp.out = "AlreadyActive"
    /\ \E g \in Guilds :
          current_streams[g] # NoHandle /\ vc[current_streams[g]].st = "connected"

\* C4: a /stop for a guild with no session entry reports NotActive and changes
\* nothing; a /stop for a guild with an entry ends with the entry removed and its
\* voice client released.
C4_StopRemovesSession ==
    [][/\ \A g \in Guilds :
             stop_movie(g) /\ current_streams[g] = NoHandle
             => /\ resp' = [cmd |-> "stop", g |-> g, out |-> "NotActive"]
                /\ UNCHANGED <<current_streams, voice_clients, vc, task>>
       /\ \A g \in Guilds :
             stop_movie(g) /\ current_streams[g] # NoHandle /\ task' = task
             => current_streams'[g] = NoHandle /\ Released(current_streams[g])
       /\ \A r \in Suspended, ok \in BOOLEAN :
             stop_disconnected(r, ok)
             => current_streams'[r.g] = NoHandle /\ Released(r.h)]_vars

\* C5: when the idle check wakes up, the channel has no human and the guild has a
\* session entry, the entry is removed; in every other case the check changes
\* nothing.
C5_IdleEvictionFires ==
    [][\A r \in Suspended :
          /\ idle_check(r) /\ ~(human_members(r.h) = {} /\ current_streams[r.g] # NoHandle)
             => SessionsUntouched /\ task' = Finish(r)
          /\ idle_check(r) /\ human_members(r.h) = {} /\ current_streams[r.g] # NoHandle
             => current_streams'[r.g] = NoHandle
                \/ task' = Suspend(r, [r EXCEPT !.pc = "idle_disc"])
          /\ \A ok \in BOOLEAN :
                idle_disconnected(r, ok) => current_streams'[r.g] = NoHandle]_vars

\* C6: handlers run one at a time: no two handlers of a guild are at once between
\* their check of the session entry and their own insert or delete of it.
InWindow(r) == r.pc \in {"play_verify", "play_connect", "stop_disc", "idle_disc"}
C6_OneHandlerAtATime ==
    \A r1, r2 \in Suspended :
        InWindow(r1) /\ InWindow(r2) /\ r1.g = r2.g
        => r1 = r2 /\ CopiesIn(r1, task) = 1

\* C7: the registry, in memory and on disk, changes only in an /add_movie or a
\* /remove_movie of an administrator; the same commands of anyone else change
\* nothing and start nothing.
C7_RegistryAdminGated ==
    [][/\ \A n \in FewNames, url \in FewUrls :
             add_movie(FALSE, n, url)
             => /\ resp' = [cmd |-> "add_movie", g |-> None, out |-> "PermissionDenied"]
                /\ UNCHANGED <<RegistrySide, task>>
       /\ \A n \in FewNames :
             remove_movie(FALSE, n)
             => /\ resp' = [cmd |-> "remove_movie", g |-> None, out |-> "PermissionDenied"]
                /\ UNCHANGED <<RegistrySide, task>>
       /\ RegistrySide' # RegistrySide
          => \/ \E r \in Suspended : add_verified(r, TRUE)
             \/ \E n \in FewNames : remove_movie(TRUE, n)]_vars

C7_Witness ==
    /\ resp.cmd = "remove_movie" /\ resp.out = "PermissionDenied"
    /\ movie_list # <<>>
    /\ disk.members = json_dump(movie_list)

\* ------------------------------------------------------- the normalizer
\* u holds the text of a share-link pattern with a file id after it
MatchesFile(u) == \E i \in 1..Len(u) : LitAt(u, i, Pattern1) /\ IdAt(u, i + Len(Pattern1))
MatchesOpen(u) == \E i \in 1..Len(u) : LitAt(u, i, Pattern2) /\ IdAt(u, i + Len(Pattern2))
MatchesDocs(u) ==
    \E i \in 1..Len(u) : \E j \in (i + Len(Pattern3Host))..Len(u) :
        LitAt(u, i, Pattern3Host) /\ LitAt(u, j, Pattern3Tail) /\ IdAt(u, j + Len(Pattern3Tail))
MatchesAny(u) == MatchesFile(u) \/ MatchesOpen(u) \/ MatchesDocs(u)
\* u is https://drive.google.com/uc?export=download&id=<id>, <id> a whole run of
\* identifier text that follows "/d/" or "?id=" in src
CanonicalOf(u, src) ==
    /\ Len(u) > Len(DirectPrefix)
    /\ SubSeq(u, 1, Len(DirectPrefix)) = DirectPrefix
    /\ \A j \in (Len(DirectPrefix) + 1)..Len(u) : u[j] \in IdToks
    /\ LET id == SubSeq(u, Len(DirectPrefix) + 1, Len(u))
       IN  \E j \in 2..Len(src) :
              /\ src[j - 1] \in {"/", "?id="}
              /\ LitAt(src, j, id)
              /\ ~IdAt(src, j + Len(id))

\* C11: convert_drive_url returns a URL that matches none of the three patterns
\* as it is, returns the canonical uc?export=download&id=<id> form of one that
\* matches, and applied to its own result returns that result.
C11_ConvertIdempotent ==
    /\ result.op \in {"convert", "convert_again"} =>
          /\ ~MatchesAny(query) => result.url = query
          /\ MatchesAny(query) => CanonicalOf(result.url, query)
    /\ result.op = "convert_again" => result.again = result.url

C11_Witness ==
    /\ result.op = "convert_again"
    /\ MatchesDocs(query) /\ ~MatchesFile(query) /\ ~MatchesOpen(query)
    /\ result.url # query
    /\ result.again = result.url

\* ---------------------------------------------------------- the registry
\* C12: no two keys of the registry fold to the same normalized key.
C12_KeysUniqueUnderFold ==
    \A i, j \in Keys : fold(movie_list[i].key) = fold(movie_list[j].key) => i = j

\* C13: /add_movie and /remove_movie leave every guild's session entry and every
\* voice client unchanged; /play, /stop, the idle check and voice-state changes
\* leave the registry, in memory and on disk, unchanged.  (Stated from the change:
\* a step that changes a session entry or a voice client is no step of the
\* registry commands, a step that changes the registry no step of the others.)
C13_SessionsRegistryIndependent ==
    [][/\ UNCHANGED <<current_streams, voice_clients, vc>>
          \/ ~NextRegistry(FewNames, FewUrls)
       /\ UNCHANGED RegistrySide \/ ~NextSession]_vars

\* the movie a connected session was started with has just been removed
C13_Witness ==
    /\ resp.cmd = "remove_movie" /\ resp.out = "Removed"
    /\ movie_list = <<>>
    /\ \E g \in Guilds :
          current_streams[g] # NoHandle /\ vc[current_streams[g]].st = "connected"

\* C14: saving what was loaded leaves the persisted mapping as it was: the same
\* keys with the same locators, and for a file that names no key twice the same
\* members in the same order; loading an absent file gives the empty mapping and
\* leaves the empty mapping persisted.
NoKeyTwice(ms) == \A i, j \in 1..Len(ms) : ms[i][1] = ms[j][1] => i = j
C14_SaveLoadRoundTrip ==
    /\ result.op = "save" /\ result.file.present =>
          /\ disk.present
          /\ json_load(disk.members) = json_load(result.file.members)
          /\ NoKeyTwice(result.file.members) => disk.members = result.file.members
    /\ result.op \in {"load", "save"} /\ ~result.file.present =>
          /\ movie_list = <<>>
          /\ disk = [present |-> TRUE, members |-> <<>>]

C14_Witness ==
    /\ result.op = "save" /\ result.file.present
    /\ Len(result.file.members) > 1
    /\ NoKeyTwice(result.file.members)
    /\ Len(movie_list) = Len(result.file.members)
    /\ disk.members = result.file.members

\* ------------------------------------------------- the sessions, again
\* C15: when the idle check has just evicted guild g's session while a /stop for g
\* was suspended at its disconnect, or a /stop has just removed it while the idle
\* check was suspended at its disconnect, the suspended handler, its own
\* disconnect returning normally, completes without an error: the entry is
\* absent, the voice client disconnected, and /stop reports success.
C15_StopAndIdleCheckCommute ==
    [][\A r \in Suspended :
          /\ /\ stop_disconnected(r, TRUE)
             /\ resp = [cmd |-> "voice", g |-> r.g, out |-> "Evicted"]
             => /\ resp' = [cmd |-> "stop", g |-> r.g, out |-> "Stopped"]
                /\ current_streams'[r.g] = NoHandle
                /\ Released(r.h)
          /\ /\ idle_disconnected(r, TRUE)
             /\ resp = [cmd |-> "stop", g |-> r.g, out |-> "Stopped"]
             => /\ resp' = [cmd |-> "voice", g |-> r.g, out |-> "Evicted"]
                /\ current_streams'[r.g] = NoHandle
                /\ Released(r.h)]_vars

\* C16: whenever no handler is suspended, a guild has a session entry exactly when
\* a voice client opened for it is connected, and the entry is that voice client:
\* no connected voice client without an entry, no entry of a disconnected one.
C16_TableMirrorsConnections ==
    task = EmptyBag =>
        \A g \in Guilds :
            /\ current_streams[g] # NoHandle => vc[current_streams[g]].st = "connected"
            /\ \A h \in Handles :
                  vc[h].st = "connected" /\ vc[h].g = g => current_streams[g] = h

\* C17: a /play that is rejected or fails changes no session entry but its own:
\* rejected at once or at the probe it changes nothing; failing later it ends with
\* no entry of its own voice client and that voice client released, and a session
\* entry that is not its own is left as it was.
PlayFails(r) ==
    \/ play_verified(r, TRUE) /\ resp'.out \in {"Error", "AlreadyConnected"}
    \/ play_connected(r, FALSE)
    \/ play_sent(r, FALSE)
    \/ play_disconnected(r)
C17_FailedPlayLeavesNoSession ==
    [][/\ \A g \in Guilds, u \in Members, n \in PlayNames :
             play_movie(g, u, n) /\ resp'.out \in {"NotInVoice", "NotFound", "AlreadyActive"}
             => UNCHANGED <<current_streams, voice_clients, vc, task>>
       /\ \A r \in Suspended :
             /\ play_verified(r, FALSE)
                => /\ resp' = [cmd |-> "play", g |-> r.g, out |-> "Unreachable"]
                   /\ SessionsUntouched
             /\ PlayFails(r) /\ r.h # NoHandle
                => current_streams'[r.g] # r.h
             /\ PlayFails(r) /\ r.h # NoHandle /\ task' = Finish(r)
                => Released(r.h)
             /\ PlayFails(r) /\ current_streams[r.g] # r.h
                => current_streams'[r.g] = current_streams[r.g]]_vars

\* ----------------------------------------------------- the registry, again
\* C18: when get_movie_url finds an entry for q, an administrator's
\* /remove_movie q removes that entry and no other, so that q resolves no more
\* when no other key folds as q does.
C18_RemoveAgreesWithResolve ==
    [][\A q \in NameInputs :
          remove_movie(TRUE, q) /\ get_movie_url(movie_list, q) # NoneStr
          => /\ resp' = [cmd |-> "remove_movie", g |-> None, out |-> "Removed"]
             /\ movie_list' = dict_del(movie_list, find_movie_name(movie_list, q))
             /\ disk' = save_movie_list(movie_list')
             /\ Cardinality({i \in Keys : fold(movie_list[i].key) = fold(q)}) = 1
                => get_movie_url(movie_list', q) = NoneStr]_vars

\* C19: an /add_movie whose URL names neither drive.google.com nor
\* docs.google.com, or whose probe fails, changes neither the registry nor the
\* file; one that succeeds maps the trimmed name to the URL as given, leaves every
\* other key its locator, and leaves the registry equal to the persisted one.
NamesGoogle(url) ==
    \E i \in 1..Len(url) : LitAt(url, i, <<"drive", ".google.com">>)
                           \/ LitAt(url, i, <<"docs", ".google.com">>)
Trimmed(n) ==
    LET inner == {i \in 1..Len(n) : n[i] # " "}
    IN  IF inner = {} THEN <<>>
        ELSE SubSeq(n, SetMin(inner), CHOOSE j \in inner : \A i \in inner : i <= j)
C19_AddRejectedOrStoredRaw ==
    [][/\ \A n \in NameInputs, url \in UrlInputs :
             add_movie(TRUE, n, url) /\ ~NamesGoogle(url)
             => /\ resp' = [cmd |-> "add_movie", g |-> None, out |-> "InvalidUrl"]
                /\ UNCHANGED <<RegistrySide, task>>
       /\ \A r \in Suspended :
             /\ add_verified(r, FALSE)
                => /\ resp' = [cmd |-> "add_movie", g |-> None, out |-> "Unreachable"]
                   /\ UNCHANGED RegistrySide
             /\ add_verified(r, TRUE)
                => /\ NamesGoogle(r.url)
                   /\ dict_has(movie_list', Trimmed(r.name))
                   /\ dict_get(movie_list', Trimmed(r.name)) = r.url
                   /\ \A i \in Keys :
                         movie_list[i].key # Trimmed(r.name)
                         => /\ dict_has(movie_list', movie_list[i].key)
                            /\ dict_get(movie_list', movie_list[i].key) = movie_list[i].url
                   /\ \A i \in 1..Len(movie_list') :
                         movie_list'[i].key = Trimmed(r.name)
                         \/ dict_has(movie_list, movie_list'[i].key)
                   /\ disk'.present
                   /\ json_load(disk'.members) = movie_list']_vars

C19_Witness ==
    /\ resp.cmd = "add_movie" /\ resp.out = "Added"
    /\ Len(movie_list) = 2
    /\ movie_list[2] = [key |-> <<"a">>, url |-> UrlShare]
    /\ convert_drive_url(UrlShare) # UrlShare
    /\ json_load(disk.members) = movie_list

====
